---- MODULE Spec2Model ----
(***************************************************************************)
(* A model of global_sdr_analysis.py: the fetch / validate / extract       *)
(* pipeline (url_fetcher, valid_hash, hash_file, url_fetch_and_validate,   *)
(* download_validate_and_unzip) and the two archive assets main registers. *)
(*                                                                         *)
(* Strings are sequences of one-character strings, so that the regular     *)
(* expression of valid_hash and the os.path functions are computed         *)
(* character by character.  File contents are sequences of small numbers.  *)
(***************************************************************************)
EXTENDS Integers, Sequences, FiniteSets, TLC

VARIABLES
    fs,        \* the file system: a function from the existing paths to their bytes
    url,       \* asset -> the url the asset's pipeline function is called with
    op,        \* asset -> "ufv" (url_fetch_and_validate) or "dvu" (download_validate_and_unzip)
    pc,        \* asset -> the position of the asset's invocation in the code
    status,    \* asset -> "idle", "running", "returned" or "raised"
    err,       \* asset -> the exception the invocation ended with (NoErr if none)
    response,  \* asset -> the bytes the open response has still to yield
    todo,      \* asset -> the archive members extractall has still to write
    runs,      \* asset -> the number of invocations started so far
    trace,     \* asset -> what the current invocation has executed (history)
    call,      \* the arguments of the last direct call of valid_hash / hash_file
    ret        \* the result of that call

vars == <<fs, url, op, pc, status, err, response, todo, runs, trace, call, ret>>

-----------------------------------------------------------------------------
(* Characters and strings                                                  *)

HexChars == <<"0","1","2","3","4","5","6","7","8","9","a","b","c","d","e","f">>

HexSet == {HexChars[i] : i \in 1..Len(HexChars)}

AllIn(s, a, b, S) == \A n \in a..b : s[n] \in S

NoneIs(s, a, b, c) == \A n \in a..b : s[n] # c

RECURSIVE LastIndex(_, _, _)
\* the largest n <= from with s[n] = c, 0 if there is none  (str.rfind + 1)
LastIndex(s, c, from) ==
    IF from = 0 THEN 0
    ELSE IF s[from] = c THEN from ELSE LastIndex(s, c, from - 1)

\* posixpath.basename: what follows the last "/"
basename(p) == SubSeq(p, LastIndex(p, "/", Len(p)) + 1, Len(p))

RECURSIVE RStripSlash(_)
RStripSlash(p) ==
    IF p # <<>> /\ p[Len(p)] = "/" THEN RStripSlash(SubSeq(p, 1, Len(p) - 1)) ELSE p

\* posixpath.dirname: what precedes the last "/", trailing slashes stripped
\* unless the head is made of slashes only
dirname(p) ==
    LET head == SubSeq(p, 1, LastIndex(p, "/", Len(p)))
    IN  IF head # <<>> /\ \E n \in 1..Len(head) : head[n] # "/"
        THEN RStripSlash(head) ELSE head

\* posixpath.join of two components
join(a, b) ==
    IF b # <<>> /\ b[1] = "/" THEN b
    ELSE IF a = <<>> \/ a[Len(a)] = "/" THEN a \o b
    ELSE a \o <<"/">> \o b

-----------------------------------------------------------------------------
(* hashlib: a stand-in for the digest functions.  Each algorithm has its   *)
(* natural hex digest length; different contents get different digests.    *)

Supported == {<<"m","d","5">>, <<"s","h","a","1">>, <<"s","h","a","2","5","6">>}

\* the natural length of an algorithm's hexdigest()
NatLen(alg) ==
    CASE alg = <<"m","d","5">> -> 32
      [] alg = <<"s","h","a","1">> -> 40
      [] alg = <<"s","h","a","2","5","6">> -> 64

Seed(alg) ==
    CASE alg = <<"m","d","5">> -> 3
      [] alg = <<"s","h","a","1">> -> 7
      [] alg = <<"s","h","a","2","5","6">> -> 11

RECURSIVE Code(_)
\* an injective numbering of the byte strings
Code(data) ==
    IF data = <<>> THEN 0 ELSE (data[1] + 1) + 3 * Code(Tail(data))

\* hashlib.new(alg).update(data).hexdigest()
hexdigest(alg, data) ==
    [i \in 1..NatLen(alg) |->
        HexChars[((Code(data) * (2 * i + 1) + (Code(data) \div 16) * i
                   + (Code(data) \div 256) * i * i
                   + (i \div 16) * (Code(data) + 5) + Seed(alg) + i) % 16) + 1]]

-----------------------------------------------------------------------------
(* Results of the functions: a value returned or an exception raised.      *)
(* `path` is the path the exception's message names (<<>> if none);        *)
(* `parsed` and `hashed` record whether the filename was parsed with the   *)
(* regular expression and whether hash_file was called (its first          *)
(* statement, line 216, resolves the algorithm with hashlib.new).          *)

Ok(v, parsed, hashed) ==
    [kind |-> "ok", value |-> v, etype |-> "", why |-> "", path |-> <<>>,
     parsed |-> parsed, hashed |-> hashed]

Raise(etype, why, path, parsed, hashed) ==
    [kind |-> "raise", value |-> FALSE, etype |-> etype, why |-> why, path |-> path,
     parsed |-> parsed, hashed |-> hashed]

-----------------------------------------------------------------------------
(* hash_file, lines 200-222                                                *)

DefaultBufSize == 1048576

TruncLen == 32

Min(a, b) == IF a < b THEN a ELSE b

\* f.read(buf_size) at offset 0 of `rest`
Read(rest, buf_size) == SubSeq(rest, 1, Min(buf_size, Len(rest)))

RECURSIVE ReadLoop(_, _, _)
\* the while loop of hash_file: the chunks passed to hash_func.update, in order
ReadLoop(binary_data, rest, buf_size) ==
    IF binary_data = <<>> THEN <<>>
    ELSE LET after == SubSeq(rest, Len(binary_data) + 1, Len(rest))
         IN  <<binary_data>> \o ReadLoop(Read(after, buf_size), after, buf_size)

RECURSIVE Concat(_)
\* the state of the hash object after the updates: the bytes fed to it
Concat(chunks) ==
    IF chunks = <<>> THEN <<>> ELSE Head(chunks) \o Concat(Tail(chunks))

\* mutant: the first chunk read is not passed to hash_func.update
Chunks_SkipFirst(data, buf_size) ==
    LET after == SubSeq(data, Len(Read(data, buf_size)) + 1, Len(data))
    IN  ReadLoop(Read(after, buf_size), after, buf_size)

Chunks(data, buf_size) == ReadLoop(Read(data, buf_size), data, buf_size)

\* hexdigest()[:32]
Truncate(digest) == SubSeq(digest, 1, Min(TruncLen, Len(digest)))

hash_file(files, file_path, hash_algorithm, buf_size) ==
    IF hash_algorithm \notin Supported
    THEN Raise("ValueError", "unsupported hash type", <<>>, FALSE, TRUE)
    ELSE IF file_path \notin DOMAIN files
    THEN Raise("IOError", "open", file_path, FALSE, TRUE)
    ELSE Ok(Truncate(hexdigest(hash_algorithm,
                               Concat(Chunks(files[file_path], buf_size)))),
            FALSE, TRUE)

-----------------------------------------------------------------------------
(* valid_hash, lines 150-197                                               *)

Digits == {"0","1","2","3","4","5","6","7","8","9"}

\* mutant: the digest group is [0-9]+
ReMatches_DigitsOnly(s) ==
    LET L == Len(s)
    IN  UNION { UNION { { <<i, j, k>> :
                k \in { k \in (j + 2)..(L - 1) :
                          /\ s[k + 1] = "."
                          /\ AllIn(s, j + 2, k, Digits)
                          /\ NoneIs(s, k + 2, L, "_") } } :
            j \in { j \in (i + 2)..(L - 1) :
                      /\ s[j + 1] = "_"
                      /\ NoneIs(s, i + 2, j, "_") } } :
        i \in { i \in 0..(L - 1) : s[i + 1] = "_" /\ NoneIs(s, 1, i, "\n") } }

\* mutant: the pattern ends in \..*$ (an underscore may follow the digest)
ReMatches_AnySuffix(s) ==
    LET L == Len(s)
    IN  UNION { UNION { { <<i, j, k>> :
                k \in { k \in (j + 2)..(L - 1) :
                          /\ s[k + 1] = "."
                          /\ AllIn(s, j + 2, k, HexSet)
                          /\ NoneIs(s, k + 2, L, "\n") } } :
            j \in { j \in (i + 2)..(L - 1) :
                      /\ s[j + 1] = "_"
                      /\ NoneIs(s, i + 2, j, "_") } } :
        i \in { i \in 0..(L - 1) : s[i + 1] = "_" /\ NoneIs(s, 1, i, "\n") } }

\* The ways r'.*_([^_]+)_([0-9a-f]+)\.[^_]*$' matches s from its start:
\* <<i, j, k>> where .* takes s[1..i], group 1 is s[i+2..j] and group 2 is
\* s[j+2..k].  (. does not match a newline; $ is the end of the string.)
ReMatches(s) ==
    LET L == Len(s)
    IN  UNION { UNION { { <<i, j, k>> :
                k \in { k \in (j + 2)..(L - 1) :
                          /\ s[k + 1] = "."
                          /\ AllIn(s, j + 2, k, HexSet)
                          /\ NoneIs(s, k + 2, L, "_") } } :
            j \in { j \in (i + 2)..(L - 1) :
                      /\ s[j + 1] = "_"
                      /\ NoneIs(s, i + 2, j, "_") } } :
        i \in { i \in 0..(L - 1) : s[i + 1] = "_" /\ NoneIs(s, 1, i, "\n") } }

\* greedy quantifiers: the longest .*, then the longest group 1, then the
\* longest group 2
Greedier(m, n) ==
    \/ m[1] > n[1]
    \/ m[1] = n[1] /\ m[2] > n[2]
    \/ m[1] = n[1] /\ m[2] = n[2] /\ m[3] >= n[3]

\* re.match(hash_re_pattern, file_path): <<>> for None, else <<group(1), group(2)>>
hash_match(file_path) ==
    LET M == ReMatches(file_path)
    IN  IF M = {} THEN <<>>
        ELSE LET m == CHOOSE m \in M : \A n \in M : Greedier(m, n)
             IN  <<SubSeq(file_path, m[1] + 2, m[2]), SubSeq(file_path, m[2] + 2, m[3])>>

Embedded == [mode |-> "embedded", alg |-> <<>>, digest |-> <<>>]

Pair(alg, digest) == [mode |-> "tuple", alg |-> alg, digest |-> digest]

Other == [mode |-> "other", alg |-> <<>>, digest |-> <<>>]

\* lines 196-197
compare_hash(files, file_path, hash_algorithm, expected_hash_value, buf_size, parsed) ==
    LET actual_hash == hash_file(files, file_path, hash_algorithm, buf_size)
    IN  IF actual_hash.kind = "raise"
        THEN [actual_hash EXCEPT !.parsed = parsed]
        ELSE Ok(expected_hash_value = actual_hash.value, parsed, TRUE)

valid_hash(files, file_path, expected_hash, buf_size) ==
    IF file_path \notin DOMAIN files
    THEN Raise("IOError", "not found", file_path, FALSE, FALSE)
    ELSE IF expected_hash.mode = "tuple"
    THEN compare_hash(files, file_path, expected_hash.alg, expected_hash.digest,
                      buf_size, FALSE)
    ELSE IF expected_hash.mode = "embedded"
    THEN LET groups == hash_match(file_path)
         IN  IF groups = <<>>
             THEN Raise("ValueError", "format", file_path, TRUE, FALSE)
             ELSE compare_hash(files, file_path, groups[1], groups[2], buf_size, TRUE)
    ELSE Raise("ValueError", "invalid expected_hash", <<>>, FALSE, FALSE)

-----------------------------------------------------------------------------
(* zipfile: a stand-in for the archive format.  An archive is a 1, then    *)
(* (name, data) byte pairs, then a closing 1 (the end-of-directory record, *)
(* which a truncated archive lacks).                                       *)

EntryName(n) == IF n = 0 THEN <<"a">> ELSE <<"b">>

\* zipfile.ZipFile(path, 'r') accepts the file
IsZip(data) ==
    /\ Len(data) >= 2
    /\ data[1] = 1
    /\ data[Len(data)] = 1
    /\ (Len(data) - 2) % 2 = 0

\* the members of the archive, in archive order
Members(data) ==
    [m \in 1..((Len(data) - 2) \div 2) |->
        [name |-> EntryName(data[2 * m]), data |-> <<data[2 * m + 1]>>]]

-----------------------------------------------------------------------------
(* Inputs: the bodies a server may answer with and the urls of the assets  *)

MaxRuns == 2

ChunkLen == 2

Zip1 == <<1, 0, 0, 1, 1, 1>>

Zip2 == <<1, 0, 1, 1, 0, 1>>

NotZip == <<0, 1>>

CutZip == <<1, 0, 0>>

Bodies == {Zip1, Zip2, NotZip, CutZip}

Md5 == <<"m","d","5">>

Sha256 == <<"s","h","a","2","5","6">>

Host == <<"h","t","t","p","s",":","/","/","g","/">>

DotZip == <<".","z","i","p">>

MkUrl(stem, alg, digest, ext) == Host \o stem \o <<"_">> \o alg \o <<"_">> \o digest \o ext

\* lines 16-18
WORKSPACE_DIR == <<"w","o","r","k","s","p","a","c","e">>

CHURN_DIR == join(WORKSPACE_DIR, <<"c","h","u","r","n">>)

ECOSHARD_DIR == join(CHURN_DIR, <<"e","c","o","s","h","a","r","d","s">>)

\* the urls a single asset is tried with: full-length and 32-character
\* fingerprints, an archive that is no archive, an unknown algorithm, no fingerprint
UrlChoices ==
    { MkUrl(<<"d">>, Md5, hexdigest(Md5, Zip1), DotZip),
      MkUrl(<<"d">>, Sha256, hexdigest(Sha256, Zip1), DotZip),
      MkUrl(<<"d">>, Sha256, SubSeq(hexdigest(Sha256, Zip1), 1, 32), DotZip),
      MkUrl(<<"d">>, Md5, hexdigest(Md5, NotZip), DotZip),
      MkUrl(<<"d">>, <<"c","r","c">>, hexdigest(Md5, Zip1), DotZip),
      Host \o <<"d">> \o DotZip }

\* lines 34-35, with the fingerprints of the stand-in archives
DEM_URL == MkUrl(<<"d","e","m">>, Md5, hexdigest(Md5, Zip1), DotZip)

WATERSHEDS_URL == MkUrl(<<"w","s">>, Md5, hexdigest(Md5, Zip2), DotZip)

-----------------------------------------------------------------------------
(* The paths of an invocation                                              *)

\* line 111 (and lines 52, 59: main builds the same path for url_fetch_and_validate)
TargetPath(u) == join(ECOSHARD_DIR, basename(u))

\* lines 83-84, 91-92
TokenPath(u) == join(ECOSHARD_DIR, basename(u) \o <<".","C","O","M","P","L","E","T","E">>)

\* line 114: os.path.dirname(target_path)
ExtractDir(u) == dirname(TargetPath(u))

\* zip_ref.extractall writes member `name` here
MemberPath(u, name) == join(ExtractDir(u), name)

Put(files, p, data) ==
    [q \in DOMAIN files \cup {p} |-> IF q = p THEN data ELSE files[q]]

NoFiles == [q \in {} |-> <<>>]

NoErr == Ok(FALSE, FALSE, FALSE)

NoCall == [fn |-> "none", done |-> FALSE]

\* valid_hash(p, 'embedded') returns True on these files
Accepts(files, p) ==
    LET r == valid_hash(files, p, Embedded, DefaultBufSize)
    IN  r.kind = "ok" /\ r.value

\* what an invocation has done so far (history, reset when it starts)
NewTrace(files, u) ==
    [fetch_calls |-> 0, fetch_done |-> FALSE, body |-> <<>>,
     parsed |-> FALSE, hashed |-> FALSE, verified |-> FALSE,
     token0 |-> TokenPath(u) \in DOMAIN files,
     ok0 |-> Accepts(files, TargetPath(u)),
     fs0 |-> files,
     wrote |-> {}]

-----------------------------------------------------------------------------
(* The state machine: one invocation at a time per asset                   *)

Assets == DOMAIN url

\* the scheduler runs each task it was given once; a caller of a single
\* function may call it again, up to MaxRuns times
RunLimit == IF Cardinality(Assets) = 1 THEN MaxRuns ELSE 1

\* the invocation of asset a ends by raising e
Fail(a, e) ==
    /\ status' = [status EXCEPT ![a] = "raised"]
    /\ err' = [err EXCEPT ![a] = e]

\* the invocation of asset a goes on at position p
Goto(a, p) == pc' = [pc EXCEPT ![a] = p]

At(a, p) == status[a] = "running" /\ pc[a] = p

\* the caller (or the scheduler) calls op[a](url[a], ...): lines 109-112, 119-136
Invoke(a) ==
    /\ status[a] # "running"
    /\ runs[a] < RunLimit
    /\ runs' = [runs EXCEPT ![a] = @ + 1]
    /\ status' = [status EXCEPT ![a] = "running"]
    /\ err' = [err EXCEPT ![a] = NoErr]
    /\ trace' = [trace EXCEPT ![a] = NewTrace(fs, url[a])]
    /\ response' = [response EXCEPT ![a] = <<>>]
    /\ todo' = [todo EXCEPT ![a] = <<>>]
    /\ Goto(a, "fetch")
    /\ UNCHANGED <<fs, url, op, call, ret>>

\* url_fetcher, line 144: urllib.urlopen(url) answers with some body
UrlOpen(a) ==
    /\ At(a, "fetch")
    /\ \E body \in Bodies :
        /\ response' = [response EXCEPT ![a] = body]
        /\ trace' = [trace EXCEPT ![a].fetch_calls = @ + 1, ![a].body = body]
    /\ Goto(a, "open")
    /\ UNCHANGED <<fs, url, op, status, err, todo, runs, call, ret>>

\* mutant: url_fetcher tries again when the connection fails
UrlOpenFail_Retry(a) ==
    /\ At(a, "fetch")
    /\ trace' = [trace EXCEPT ![a].fetch_calls = @ + 1]
    /\ UNCHANGED <<fs, url, op, pc, status, err, response, todo, runs, call, ret>>

\* mutant: the destination is opened for writing before the connection is made
UrlOpenFail_Truncating(a) ==
    /\ At(a, "fetch")
    /\ trace' = [trace EXCEPT ![a].fetch_calls = @ + 1]
    /\ fs' = Put(fs, TargetPath(url[a]), <<>>)
    /\ Fail(a, Raise("IOError", "urlopen", <<>>, FALSE, FALSE))
    /\ UNCHANGED <<url, op, pc, response, todo, runs, call, ret>>

\* line 144: urllib.urlopen raises (no connection)
UrlOpenFail(a) ==
    /\ At(a, "fetch")
    /\ trace' = [trace EXCEPT ![a].fetch_calls = @ + 1]
    /\ Fail(a, Raise("IOError", "urlopen", <<>>, FALSE, FALSE))
    /\ UNCHANGED <<fs, url, op, pc, response, todo, runs, call, ret>>

\* line 145: open(path, 'wb') creates or truncates the destination
FileOpen(a) ==
    /\ At(a, "open")
    /\ fs' = Put(fs, TargetPath(url[a]), <<>>)
    /\ trace' = [trace EXCEPT ![a].wrote = @ \cup {TargetPath(url[a])}]
    /\ Goto(a, "copy")
    /\ UNCHANGED <<url, op, status, err, response, todo, runs, call, ret>>

\* line 145: open(path, 'wb') raises
FileOpenFail(a) ==
    /\ At(a, "open")
    /\ Fail(a, Raise("IOError", "open", TargetPath(url[a]), FALSE, FALSE))
    /\ UNCHANGED <<fs, url, op, pc, response, todo, runs, trace, call, ret>>

\* line 146: shutil.copyfileobj copies the next chunk
CopyChunk(a) ==
    /\ At(a, "copy")
    /\ response[a] # <<>>
    /\ LET n == Min(ChunkLen, Len(response[a]))
       IN  /\ fs' = Put(fs, TargetPath(url[a]),
                        fs[TargetPath(url[a])] \o SubSeq(response[a], 1, n))
           /\ response' = [response EXCEPT ![a] = SubSeq(@, n + 1, Len(@))]
    /\ UNCHANGED <<url, op, pc, status, err, todo, runs, trace, call, ret>>

\* mutant: url_fetcher swallows the transfer error and returns
CopyFail_Swallowed(a) ==
    /\ At(a, "copy")
    /\ response[a] # <<>>
    /\ Goto(a, "validate")
    /\ UNCHANGED <<fs, url, op, status, err, response, todo, runs, trace, call, ret>>

\* line 146: the transfer breaks; the with statement closes the partial file
CopyFail(a) ==
    /\ At(a, "copy")
    /\ response[a] # <<>>
    /\ Fail(a, Raise("IOError", "read", <<>>, FALSE, FALSE))
    /\ UNCHANGED <<fs, url, op, pc, response, todo, runs, trace, call, ret>>

\* mutant: download_validate_and_unzip calls url_fetcher, not url_fetch_and_validate
CopyDone_SkipValidate(a) ==
    /\ At(a, "copy")
    /\ response[a] = <<>>
    /\ trace' = [trace EXCEPT ![a].fetch_done = TRUE]
    /\ Goto(a, IF op[a] = "dvu" THEN "unzip" ELSE "validate")
    /\ UNCHANGED <<fs, url, op, status, err, response, todo, runs, call, ret>>

\* lines 146-147: end of the response; the file is closed and url_fetcher returns
CopyDone(a) ==
    /\ At(a, "copy")
    /\ response[a] = <<>>
    /\ trace' = [trace EXCEPT ![a].fetch_done = TRUE]
    /\ Goto(a, "validate")
    /\ UNCHANGED <<fs, url, op, status, err, response, todo, runs, call, ret>>

\* mutant: the mismatch is reported by an assertion, which names no path
gate_Assert(r, target_path) ==
    IF r.kind = "raise" THEN r
    ELSE IF ~r.value
    THEN Raise("AssertionError", "", <<>>, r.parsed, r.hashed)
    ELSE Ok(TRUE, r.parsed, r.hashed)

\* lines 137-138: the result of url_fetch_and_validate, given valid_hash's
gate(r, target_path) ==
    IF r.kind = "raise" THEN r
    ELSE IF ~r.value
    THEN Raise("ValueError", "does not match its expected hash", target_path,
               r.parsed, r.hashed)
    ELSE Ok(TRUE, r.parsed, r.hashed)

\* mutant: the token is written right after the validation, before the extraction
AfterValidate_TokenFirst(o) == IF o = "dvu" THEN "token" ELSE "end"

\* where an invocation goes on after url_fetch_and_validate returned:
\* line 113 in download_validate_and_unzip, else it has returned
AfterValidate(o) == IF o = "dvu" THEN "unzip" ELSE "end"

\* lines 137-138: valid_hash(target_path, 'embedded') and the check of its result
Validate(a) ==
    /\ At(a, "validate")
    /\ LET g == gate(valid_hash(fs, TargetPath(url[a]), Embedded, DefaultBufSize),
                     TargetPath(url[a]))
       IN  /\ trace' = [trace EXCEPT ![a].parsed = g.parsed, ![a].hashed = g.hashed,
                                     ![a].verified = (g.kind = "ok")]
           /\ IF g.kind = "raise"
              THEN Fail(a, g) /\ UNCHANGED pc
              ELSE /\ Goto(a, AfterValidate(op[a]))
                   /\ status' = [status EXCEPT ![a] =
                                    IF AfterValidate(op[a]) = "end" THEN "returned" ELSE @]
                   /\ UNCHANGED err
    /\ UNCHANGED <<fs, url, op, response, todo, runs, call, ret>>

\* mutant: the members of an earlier extraction are removed before extracting
ZipOpen_Cleaning(a) ==
    /\ At(a, "unzip")
    /\ IF IsZip(fs[TargetPath(url[a])])
       THEN /\ todo' = [todo EXCEPT ![a] = Members(fs[TargetPath(url[a])])]
            /\ fs' = [q \in DOMAIN fs \ {MemberPath(url[a], EntryName(n)) : n \in 0..1}
                        |-> fs[q]]
            /\ Goto(a, "extract")
            /\ UNCHANGED <<status, err>>
       ELSE /\ Fail(a, Raise("BadZipfile", "not a zip file", <<>>, FALSE, FALSE))
            /\ UNCHANGED <<fs, pc, todo>>
    /\ UNCHANGED <<url, op, response, runs, trace, call, ret>>

\* line 113: zipfile.ZipFile(target_path, 'r')
ZipOpen(a) ==
    /\ At(a, "unzip")
    /\ IF IsZip(fs[TargetPath(url[a])])
       THEN /\ todo' = [todo EXCEPT ![a] = Members(fs[TargetPath(url[a])])]
            /\ Goto(a, "extract")
            /\ UNCHANGED <<status, err>>
       ELSE /\ Fail(a, Raise("BadZipfile", "not a zip file", <<>>, FALSE, FALSE))
            /\ UNCHANGED <<pc, todo>>
    /\ UNCHANGED <<fs, url, op, response, runs, trace, call, ret>>

\* line 114: extractall writes the next member, replacing what is there
ExtractOne(a) ==
    /\ At(a, "extract")
    /\ todo[a] # <<>>
    /\ LET m == Head(todo[a])
       IN  /\ fs' = Put(fs, MemberPath(url[a], m.name), m.data)
           /\ trace' = [trace EXCEPT ![a].wrote = @ \cup {MemberPath(url[a], m.name)}]
    /\ todo' = [todo EXCEPT ![a] = Tail(@)]
    /\ UNCHANGED <<url, op, pc, status, err, response, runs, call, ret>>

\* line 114: extractall raises on a member (disk full, unwritable path)
ExtractFail(a) ==
    /\ At(a, "extract")
    /\ todo[a] # <<>>
    /\ Fail(a, Raise("IOError", "extract", <<>>, FALSE, FALSE))
    /\ UNCHANGED <<fs, url, op, pc, response, todo, runs, trace, call, ret>>

\* line 114: every member is written; the archive is closed
ExtractDone(a) ==
    /\ At(a, "extract")
    /\ todo[a] = <<>>
    /\ Goto(a, "token")
    /\ UNCHANGED <<fs, url, op, status, err, response, todo, runs, trace, call, ret>>

\* line 115: open(token_file, 'w') creates or truncates the token
TokenOpen(a) ==
    /\ At(a, "token")
    /\ fs' = Put(fs, TokenPath(url[a]), <<>>)
    /\ trace' = [trace EXCEPT ![a].wrote = @ \cup {TokenPath(url[a])}]
    /\ Goto(a, "stamp")
    /\ UNCHANGED <<url, op, status, err, response, todo, runs, call, ret>>

\* line 115: open(token_file, 'w') raises
TokenOpenFail(a) ==
    /\ At(a, "token")
    /\ Fail(a, Raise("IOError", "open", TokenPath(url[a]), FALSE, FALSE))
    /\ UNCHANGED <<fs, url, op, pc, response, todo, runs, trace, call, ret>>

\* line 116: the time is written (the run number stands for the time) and
\* download_validate_and_unzip returns
TokenWrite(a) ==
    /\ At(a, "stamp")
    /\ fs' = Put(fs, TokenPath(url[a]), <<runs[a]>>)
    /\ Goto(a, "end")
    /\ status' = [status EXCEPT ![a] = "returned"]
    /\ UNCHANGED <<url, op, err, response, todo, runs, trace, call, ret>>

\* line 116: the write raises; the with statement closes the empty token
TokenWriteFail(a) ==
    /\ At(a, "stamp")
    /\ Fail(a, Raise("IOError", "write", <<>>, FALSE, FALSE))
    /\ UNCHANGED <<fs, url, op, pc, response, todo, runs, trace, call, ret>>

Next ==
    \/ \E a \in Assets : Invoke(a)
    \/ \E a \in Assets : UrlOpen(a)
    \/ \E a \in Assets : UrlOpenFail(a)
    \/ \E a \in Assets : FileOpen(a)
    \/ \E a \in Assets : FileOpenFail(a)
    \/ \E a \in Assets : CopyChunk(a)
    \/ \E a \in Assets : CopyFail(a)
    \/ \E a \in Assets : CopyDone(a)
    \/ \E a \in Assets : Validate(a)
    \/ \E a \in Assets : ZipOpen(a)
    \/ \E a \in Assets : ExtractOne(a)
    \/ \E a \in Assets : ExtractFail(a)
    \/ \E a \in Assets : ExtractDone(a)
    \/ \E a \in Assets : TokenOpen(a)
    \/ \E a \in Assets : TokenOpenFail(a)
    \/ \E a \in Assets : TokenWrite(a)
    \/ \E a \in Assets : TokenWriteFail(a)

Idle(A) ==
    /\ pc = [a \in A |-> "none"]
    /\ status = [a \in A |-> "idle"]
    /\ err = [a \in A |-> NoErr]
    /\ response = [a \in A |-> <<>>]
    /\ todo = [a \in A |-> <<>>]
    /\ runs = [a \in A |-> 0]
    /\ trace = [a \in A |-> NewTrace(NoFiles, url[a])]

\* one asset, given to either function, in an empty workspace
Init ==
    /\ url \in [{1} -> UrlChoices]
    /\ op \in [{1} -> {"ufv", "dvu"}]
    /\ fs = NoFiles
    /\ call = NoCall
    /\ ret = NoErr
    /\ Idle({1})

Spec == Init /\ [][Next]_vars

-----------------------------------------------------------------------------
(* Properties of the pipeline (specification Spec)                         *)

Ended(a) == status[a] \in {"returned", "raised"}

\* the file at p has, under the algorithm parsed from p, exactly the digest
\* parsed from p (the algorithm's own hexdigest, whatever its length)
DigestMatches(files, p) ==
    LET g == hash_match(p)
    IN  /\ g # <<>>
        /\ g[1] \in Supported
        /\ p \in DOMAIN files
        /\ hexdigest(g[1], files[p]) = g[2]

\* C1: once the download is done, url_fetch_and_validate returns normally if
\* and only if the digest of the downloaded file under the parsed algorithm
\* equals the parsed expected digest, whatever the length of that digest.
C1_VerificationGate ==
    \A a \in Assets :
        (trace[a].fetch_done /\ ~At(a, "validate"))
            => (trace[a].verified <=> DigestMatches(fs, TargetPath(url[a])))

\* every member of the archive at the target path is in the target directory
Extracted(files, u) ==
    /\ TargetPath(u) \in DOMAIN files
    /\ IsZip(files[TargetPath(u)])
    /\ \A m \in 1..Len(Members(files[TargetPath(u)])) :
          LET e == Members(files[TargetPath(u)])[m]
          IN  /\ MemberPath(u, e.name) \in DOMAIN files
              /\ files[MemberPath(u, e.name)] = e.data

\* C2: in an invocation of download_validate_and_unzip that started without a
\* token, the token exists only once the download has completed, the
\* fingerprint was verified and every member was extracted; so an invocation
\* that failed in one of these steps ends without a token.
C2_TokenOrdering ==
    \A a \in Assets :
        (op[a] = "dvu" /\ status[a] # "idle" /\ ~trace[a].token0)
            => /\ TokenPath(url[a]) \in DOMAIN fs
                    => /\ trace[a].fetch_done
                       /\ trace[a].verified
                       /\ Extracted(fs, url[a])
               /\ (status[a] = "raised" /\ pc[a] \in {"fetch", "open", "copy",
                                                      "validate", "unzip", "extract"})
                    => TokenPath(url[a]) \notin DOMAIN fs

\* C2 witness: the extraction failed after a member was written, no token
C2_Witness ==
    \E a \in Assets :
        /\ op[a] = "dvu" /\ ~trace[a].token0
        /\ status[a] = "raised" /\ pc[a] = "extract" /\ err[a].why = "extract"
        /\ \E n \in 0..1 : MemberPath(url[a], EntryName(n)) \in trace[a].wrote
        /\ TokenPath(url[a]) \notin DOMAIN fs

\* the bytes of the response, as far as they are on disk
OnDisk(a) == IF TargetPath(url[a]) \in DOMAIN fs THEN fs[TargetPath(url[a])] ELSE <<>>

\* C3: valid_hash starts (the filename is parsed, hash_file is called) only
\* in a state where url_fetcher has returned with the whole response written,
\* and an invocation in which url_fetcher failed ends with that failure,
\* having parsed and hashed nothing.
C3_StrictSequencing ==
    /\ [][\A a \in Assets :
            (At(a, "validate") /\ (trace'[a].parsed \/ trace'[a].hashed))
                => /\ trace[a].fetch_done
                   /\ response[a] = <<>>
                   /\ OnDisk(a) = trace[a].body]_vars
    /\ [](\A a \in Assets :
            /\ (trace[a].parsed \/ trace[a].hashed \/ trace[a].verified)
                  => trace[a].fetch_done
            /\ (Ended(a) /\ ~trace[a].fetch_done)
                  => /\ status[a] = "raised"
                     /\ err[a].etype = "IOError"
                     /\ err[a].why \in {"urlopen", "open", "read"}
                     /\ ~trace[a].parsed /\ ~trace[a].hashed)

\* C3 witness: a transfer broke after part of the body was written
C3_Witness ==
    \E a \in Assets :
        /\ status[a] = "raised" /\ err[a].why = "read"
        /\ OnDisk(a) # <<>> /\ OnDisk(a) # trace[a].body
        /\ ~trace[a].parsed /\ ~trace[a].hashed

\* the states of the Archive Materializer, by the position in the code
Rank(a) ==
    CASE pc[a] \in {"none", "fetch"} -> 0                \* PENDING
      [] pc[a] \in {"open", "copy", "validate"} -> 1     \* DOWNLOADING
      [] pc[a] \in {"unzip", "extract"} -> 2             \* VERIFIED
      [] pc[a] \in {"token", "stamp"} -> 3               \* EXTRACTED
      [] pc[a] = "end" -> 4                              \* MARKED

\* C4: an invocation of download_validate_and_unzip goes through PENDING,
\* DOWNLOADING, VERIFIED, EXTRACTED, MARKED one state at a time, and a member
\* is written to the target directory only when valid_hash has accepted, in
\* this invocation, the archive that is on disk.
C4_StateOrder ==
    [][\A a \in Assets :
          op[a] = "dvu" =>
            /\ Rank(a)' # Rank(a)
                  => \/ Rank(a)' = Rank(a) + 1 /\ status[a] = "running"
                     \/ Rank(a)' = 0 /\ status[a] # "running"
            /\ (status[a] # "running" /\ status'[a] = "running") => Rank(a)' = 0
            /\ (todo[a] # <<>> /\ todo'[a] = Tail(todo[a]))
                  => /\ trace[a].verified
                     /\ Accepts(fs, TargetPath(url[a]))
                     /\ Rank(a) = 2]_vars

\* C4 witness: a member is being extracted from a verified archive
C4_Witness ==
    \E a \in Assets :
        /\ op[a] = "dvu" /\ At(a, "extract") /\ trace[a].verified
        /\ todo[a] # <<>>
        /\ \E n \in 0..1 : MemberPath(url[a], EntryName(n)) \in trace[a].wrote

\* valid_hash compared the digest hash_file returned with the parsed one and
\* they differ
Mismatch(files, p) ==
    LET g == hash_match(p)
    IN  /\ g # <<>>
        /\ hash_file(files, p, g[1], DefaultBufSize).kind = "ok"
        /\ hash_file(files, p, g[1], DefaultBufSize).value # g[2]

\* C5: when the digest hash_file returns differs from the expected one,
\* url_fetch_and_validate ends with a ValueError whose message names the
\* destination path, and the destination holds exactly the transferred bytes.
C5_MismatchLeavesFile ==
    \A a \in Assets :
        (trace[a].fetch_done /\ ~At(a, "validate")
                /\ Mismatch(fs, TargetPath(url[a])))
            => /\ status[a] = "raised"
               /\ err[a].etype = "ValueError"
               /\ err[a].why = "does not match its expected hash"
               /\ err[a].path = TargetPath(url[a])
               /\ pc[a] = "validate"
               /\ TargetPath(url[a]) \in DOMAIN fs
               /\ fs[TargetPath(url[a])] = trace[a].body

\* C5 witness: a tampered body was downloaded and rejected
C5_Witness ==
    \E a \in Assets :
        /\ status[a] = "raised" /\ err[a].why = "does not match its expected hash"
        /\ trace[a].body = Zip2 /\ OnDisk(a) = Zip2

\* C6: in every quiescent state of an asset of download_validate_and_unzip
\* where the completion token exists, the archive at the target path is
\* accepted against its fingerprint and all its members are extracted
\* (a failed invocation leaves no token that says otherwise).
C6_TokenSoleSignal ==
    \A a \in Assets :
        (op[a] = "dvu" /\ status[a] # "running" /\ TokenPath(url[a]) \in DOMAIN fs)
            => /\ Accepts(fs, TargetPath(url[a]))
               /\ Extracted(fs, url[a])

\* C10 as claimed: if the destination held accepted bytes when
\* url_fetch_and_validate was invoked, it holds accepted bytes when the
\* invocation has ended, however it ended.
C10_ReinvocationSafe ==
    \A a \in Assets :
        (op[a] = "ufv" /\ trace[a].ok0 /\ Ended(a))
            => Accepts(fs, TargetPath(url[a]))

\* C10 amended: if the destination held accepted bytes when
\* url_fetch_and_validate was invoked, it holds accepted bytes when the
\* invocation has returned normally or has failed before the destination was
\* opened for writing.
C10_ReinvocationAmended ==
    \A a \in Assets :
        (/\ op[a] = "ufv"
         /\ trace[a].ok0
         /\ \/ status[a] = "returned"
            \/ status[a] = "raised" /\ pc[a] \in {"fetch", "open"})
            => Accepts(fs, TargetPath(url[a]))

\* C10 witness: a second invocation on an accepted file has returned
C10_Witness ==
    \E a \in Assets :
        /\ op[a] = "ufv" /\ trace[a].ok0 /\ runs[a] = 2
        /\ status[a] = "returned"
        /\ Accepts(fs, TargetPath(url[a]))

-----------------------------------------------------------------------------
(* main, lines 83-97: the two archive assets, run concurrently by the      *)
(* scheduler, each once, both into ECOSHARD_DIR                            *)

InitConc ==
    /\ url = [a \in {1, 2} |-> IF a = 1 THEN DEM_URL ELSE WATERSHEDS_URL]
    /\ op = [a \in {1, 2} |-> "dvu"]
    /\ fs = NoFiles
    /\ call = NoCall
    /\ ret = NoErr
    /\ Idle({1, 2})

SpecConc == InitConc /\ [][Next]_vars

RECURSIVE ExtractAll(_, _, _)
\* the files after extractall has written the members, in order
ExtractAll(files, u, members) ==
    IF members = <<>> THEN files
    ELSE ExtractAll(Put(files, MemberPath(u, Head(members).name), Head(members).data),
                    u, Tail(members))

\* the files after an undisturbed, successful download_validate_and_unzip
RunAlone(files, u, body, stamp) ==
    Put(ExtractAll(Put(files, TargetPath(u), body), u, Members(body)),
        TokenPath(u), <<stamp>>)

\* the files after asset a, then asset b, ran alone in an empty workspace
OneAfterTheOther(a, b) ==
    RunAlone(RunAlone(NoFiles, url[a], trace[a].body, 1), url[b], trace[b].body, 1)

\* C9: two distinct assets of main write disjoint sets of paths, and when
\* both pipelines have returned the files are what running one asset after
\* the other leaves.
C9_CrossAssetIsolation ==
    \A a, b \in Assets :
        a # b =>
            /\ trace[a].wrote \cap trace[b].wrote = {}
            /\ (status[a] = "returned" /\ status[b] = "returned")
                  => fs \in {OneAfterTheOther(a, b), OneAfterTheOther(b, a)}

-----------------------------------------------------------------------------
(* valid_hash called directly on one path (specification SpecParse)        *)

Stems == {<<"d">>, <<"a","_","b">>, <<"a",".","b">>, <<"w","/","d">>}

AlgNames == {Md5, Sha256, <<"s","h","a","3","_","2","5","6">>, <<"c","r","c">>}

Digests == {<<"0","f">>, hexdigest(Md5, Zip1), hexdigest(Sha256, Zip1)}

Exts == {<<".","t","i","f">>, <<".","t","a","r",".","g","z">>, <<".">>}

\* paths that are not of the form stem_algorithm_digest.ext
RawPaths ==
    { <<"d",".","z","i","p">>, <<"d","_","m","d","5",".","z","i","p">>, <<"d","_","m","d","5","_",".","z","i","p">>, <<"d","_","_","0","f",".","z","i","p">>, <<"d","_","m","d","5","_","0","g",".","z","i","p">>,
      <<"d","_","m","d","5","_","0","F",".","z","i","p">>, <<"d","_","m","d","5","_","0","f">>, <<"d","_","m","d","5","_","0","f",".","a","_","b">>, <<"m","d","5","_","0","f",".","z","i","p">>,
      <<"d","_","m","d","5","_","a","b",".","d","/","f","i","l","e">>, <<"d","_","m","d","5","_","a","b",".","d","/","f","_","g",".","t">> }

Built(stem, alg, digest, ext) ==
    [fn |-> "valid_hash", done |-> FALSE, built |-> TRUE,
     path |-> stem \o <<"_">> \o alg \o <<"_">> \o digest \o ext,
     alg |-> alg, digest |-> digest, expected |-> Embedded, buf |-> DefaultBufSize]

Raw(path) ==
    [fn |-> "valid_hash", done |-> FALSE, built |-> FALSE, path |-> path,
     alg |-> <<>>, digest |-> <<>>, expected |-> Embedded, buf |-> DefaultBufSize]

ParseCalls ==
    {Built(s, a, d, e) : s \in Stems, a \in AlgNames, d \in Digests, e \in Exts}
        \cup {Raw(p) : p \in RawPaths}

\* the file to validate exists, with some content, or does not
InitParse ==
    /\ call \in ParseCalls
    /\ fs \in {NoFiles} \cup {Put(NoFiles, call.path, data) : data \in {Zip1, NotZip}}
    /\ ret = NoErr
    /\ url = <<>>
    /\ op = <<>>
    /\ Idle({})

\* valid_hash(file_path, 'embedded')
CallValidHash ==
    /\ call.fn = "valid_hash"
    /\ ~call.done
    /\ ret' = valid_hash(fs, call.path, call.expected, call.buf)
    /\ call' = [call EXCEPT !.done = TRUE]
    /\ UNCHANGED <<fs, url, op, pc, status, err, response, todo, runs, trace>>

NextParse == CallValidHash

SpecParse == InitParse /\ [][NextParse]_vars

HasUnderscore(s) == \E n \in 1..Len(s) : s[n] = "_"

\* C7 as claimed: for every stem, every algorithm name (sha3_256 too) and
\* every lowercase hex digest, parsing stem_algorithm_digest.ext yields
\* exactly that algorithm and that digest, and they are what is verified.
C7_RoundTrip ==
    (call.done /\ call.built)
        => /\ hash_match(call.path) = <<call.alg, call.digest>>
           /\ call.path \in DOMAIN fs
                => ret = compare_hash(fs, call.path, call.alg, call.digest,
                                      call.buf, TRUE)

\* C7 amended: the same, for the algorithm names that contain no underscore.
C7_RoundTripAmended ==
    (call.done /\ call.built /\ ~HasUnderscore(call.alg))
        => /\ hash_match(call.path) = <<call.alg, call.digest>>
           /\ call.path \in DOMAIN fs
                => ret = compare_hash(fs, call.path, call.alg, call.digest,
                                      call.buf, TRUE)

\* C7 witness: a stem with an underscore, a 64-character digest, two dots
C7_Witness ==
    /\ call.done /\ call.built
    /\ call.path = <<"a","_","b","_","s","h","a","2","5","6","_">> \o hexdigest(Sha256, Zip1) \o <<".","t","a","r",".","g","z">>
    /\ call.path \in DOMAIN fs
    /\ ret.kind = "ok" /\ ret.parsed /\ ret.hashed

\* s ends in _<algorithm>_<hexdigest>.<rest>, the rest without an underscore:
\* read off the last two underscores of s
HasFingerprint(s) ==
    LET q == LastIndex(s, "_", Len(s))
        p == IF q = 0 THEN 0 ELSE LastIndex(s, "_", q - 1)
    IN  /\ p >= 1
        /\ q >= p + 2
        /\ \E k \in (q + 1)..(Len(s) - 1) :
              /\ s[k + 1] = "."
              /\ AllIn(s, q + 1, k, HexSet)

Rejected ==
    /\ ret.kind = "raise" /\ ret.etype = "ValueError" /\ ret.why = "format"
    /\ ~ret.hashed

\* C8 as claimed: an existing file whose filename (the last component of the
\* path) has no _<algorithm>_<hexdigest> before its extension is rejected
\* with the format error and never hashed, also when a directory of the path
\* has such segments.
C8_ParseRejection ==
    (call.done /\ call.expected = Embedded /\ call.path \in DOMAIN fs
            /\ ~HasFingerprint(basename(call.path)))
        => Rejected

\* C8 amended: an existing file whose whole path (directories included) has
\* no _<algorithm>_<hexdigest> followed by a dot and an underscore-free rest
\* is rejected with the format error and never hashed.
C8_ParseRejectionAmended ==
    (call.done /\ call.expected = Embedded /\ call.path \in DOMAIN fs
            /\ ~HasFingerprint(call.path))
        => Rejected

\* C8 witness: a digest segment with a non-hex character was rejected
C8_Witness ==
    /\ call.done /\ call.path = <<"d","_","m","d","5","_","0","g",".","z","i","p">> /\ call.path \in DOMAIN fs
    /\ Rejected

-----------------------------------------------------------------------------
(* More properties of the pipeline (specification Spec)                    *)

\* the files at the start of the invocation are those a successful run of
\* download_validate_and_unzip leaves: accepted archive, members, token
AfterARun(a) ==
    /\ trace[a].token0
    /\ Accepts(trace[a].fs0, TargetPath(url[a]))
    /\ Extracted(trace[a].fs0, url[a])

\* the server answers (or has not yet answered) with the bytes of the archive
\* that was on disk at the start of the invocation
SameRemote(a) ==
    trace[a].body \in {<<>>, trace[a].fs0[TargetPath(url[a])]}

RaisedAt(a, p) ==
    CASE p = "fetch" -> {Raise("IOError", "urlopen", <<>>, FALSE, FALSE)}
      [] p = "open" -> {Raise("IOError", "open", TargetPath(url[a]), FALSE, FALSE)}
      [] p = "copy" -> {Raise("IOError", "read", <<>>, FALSE, FALSE)}
      [] p = "validate" ->
            LET r == valid_hash(fs, TargetPath(url[a]), Embedded, DefaultBufSize)
            IN  IF r.kind = "raise" THEN {r}
                ELSE IF ~r.value
                THEN {Raise("ValueError", "does not match its expected hash",
                            TargetPath(url[a]), TRUE, TRUE)}
                ELSE {}
      [] p = "unzip" -> {Raise("BadZipfile", "not a zip file", <<>>, FALSE, FALSE)}
      [] p = "extract" -> {Raise("IOError", "extract", <<>>, FALSE, FALSE)}
      [] p = "token" -> {Raise("IOError", "open", TokenPath(url[a]), FALSE, FALSE)}
      [] p = "stamp" -> {Raise("IOError", "write", <<>>, FALSE, FALSE)}
      [] OTHER -> {}

\* C14: in one invocation url_fetcher is executed at most once; an invocation
\* that raised holds exactly the exception of the stage it stopped in; and
\* after the exception nothing of the invocation runs: its position, its
\* exception and the files stay as they are until the function is called anew.
C14_NoRetryFirstFailure ==
    /\ [](\A a \in Assets :
            /\ trace[a].fetch_calls <= 1
            /\ status[a] = "raised" => err[a] \in RaisedAt(a, pc[a])
            /\ status[a] = "returned" => err[a] = NoErr)
    /\ [][\A a \in Assets :
            status[a] = "raised"
                => \/ /\ status'[a] = "raised"
                      /\ pc'[a] = pc[a] /\ err'[a] = err[a]
                      /\ trace'[a] = trace[a] /\ fs' = fs
                   \/ /\ status'[a] = "running"
                      /\ pc'[a] = "fetch" /\ runs'[a] = runs[a] + 1
                      /\ trace'[a].fetch_calls = 0 /\ fs' = fs]_vars

\* C14 witness: the extraction raised after the one transfer of the invocation
C14_Witness ==
    \E a \in Assets :
        /\ status[a] = "raised" /\ pc[a] = "extract"
        /\ trace[a].fetch_calls = 1
        /\ err[a].etype = "IOError" /\ err[a].why = "extract"

-----------------------------------------------------------------------------
(* valid_hash and hash_file called directly (specification SpecDirect)     *)

MaxBuf == 4

Sha1 == <<"s","h","a","1">>

Crc == <<"c","r","c">>

\* buf_size arguments: small ones, and the default of line 200
BufSizes == 1..MaxBuf \cup {DefaultBufSize}

PlainPath == <<"d",".","z","i","p">>

\* a path with the md5 of Zip1 embedded
NamedPath == <<"d","_">> \o Md5 \o <<"_">> \o hexdigest(Md5, Zip1) \o DotZip

\* expected_hash arguments: (algorithm, digest) tuples, 'embedded', anything else
ExpectedChoices ==
    {Pair(alg, d) : alg \in Supported \cup {Crc},
                    d \in {hexdigest(Md5, Zip1), hexdigest(Sha256, Zip1),
                           Truncate(hexdigest(Sha256, Zip1)), <<"0","f">>}}
        \cup {Embedded, Other}

ValidHashCall(path, expected) ==
    [fn |-> "valid_hash", done |-> FALSE, built |-> FALSE, path |-> path,
     alg |-> expected.alg, digest |-> expected.digest, expected |-> expected,
     buf |-> DefaultBufSize]

HashFileCall(path, alg, buf_size) ==
    [fn |-> "hash_file", done |-> FALSE, built |-> FALSE, path |-> path,
     alg |-> alg, digest |-> <<>>, expected |-> Other, buf |-> buf_size]

DirectCalls ==
    {ValidHashCall(p, e) : p \in {PlainPath, NamedPath}, e \in ExpectedChoices}
        \cup {HashFileCall(PlainPath, alg, b) : alg \in Supported \cup {Crc},
                                                b \in BufSizes}

\* the file of the call does not exist, or exists with some content
InitDirect ==
    /\ call \in DirectCalls
    /\ fs \in {NoFiles}
                \cup {Put(NoFiles, call.path, data) : data \in {<<>>} \cup Bodies}
    /\ ret = NoErr
    /\ url = <<>>
    /\ op = <<>>
    /\ Idle({})

\* hash_file(file_path, hash_algorithm, buf_size)
CallHashFile ==
    /\ call.fn = "hash_file"
    /\ ~call.done
    /\ ret' = hash_file(fs, call.path, call.alg, call.buf)
    /\ call' = [call EXCEPT !.done = TRUE]
    /\ UNCHANGED <<fs, url, op, pc, status, err, response, todo, runs, trace>>

NextDirect ==
    \/ CallValidHash
    \/ CallHashFile

SpecDirect == InitDirect /\ [][NextDirect]_vars

\* C12 as claimed: a call of valid_hash or of hash_file on a path that does
\* not exist raises IOError, whatever the algorithm name, the mode or the
\* shape of the filename, and raises it before the filename is parsed and
\* before the algorithm is resolved.
C12_MissingFilePrecedence ==
    (call.done /\ call.path \notin DOMAIN fs)
        => /\ ret.kind = "raise"
           /\ ret.etype = "IOError"
           /\ ~ret.parsed
           /\ ~ret.hashed

\* C13 as claimed: for every supported algorithm, the digest hash_file
\* returns is a lowercase hex string of the algorithm's natural length
\* (32 for md5, 40 for sha1, 64 for sha256).
C13_DigestLength ==
    (call.fn = "hash_file" /\ call.done /\ ret.kind = "ok")
        => /\ Len(ret.value) = NatLen(call.alg)
           /\ AllIn(ret.value, 1, Len(ret.value), HexSet)

\* C15 as claimed: with an (algorithm, digest) tuple, valid_hash hashes the
\* file with that algorithm without parsing the filename, returns True when
\* hash_file's result is the given digest, and raises AssertionError when
\* it is not.
C15_ExplicitFingerprint ==
    (/\ call.fn = "valid_hash" /\ call.done
     /\ call.expected.mode = "tuple"
     /\ call.path \in DOMAIN fs
     /\ call.alg \in Supported)
        => /\ ~ret.parsed
           /\ ret.hashed
           /\ IF hash_file(fs, call.path, call.alg, call.buf).value = call.digest
              THEN ret.kind = "ok" /\ ret.value = TRUE
              ELSE ret.kind = "raise" /\ ret.etype = "AssertionError"

\* the number of reads that return data: the length over buf_size, rounded up
Reads(data, buf_size) == (Len(data) + buf_size - 1) \div buf_size

\* C16: for every file content and every buf_size >= 1 the read loop of
\* hash_file ends after ceil(len / buf_size) non-empty chunks of at most
\* buf_size bytes, the chunks passed to update, concatenated in order, are
\* the file's bytes, and the digest returned is that of the whole content
\* in one update, the same for every buf_size.
C16_ChunkedStreaming ==
    (/\ call.fn = "hash_file" /\ call.done
     /\ call.path \in DOMAIN fs
     /\ call.alg \in Supported)
        => LET data == fs[call.path]
               chunks == Chunks(data, call.buf)
           IN  /\ Len(chunks) = Reads(data, call.buf)
               /\ \A n \in 1..Len(chunks) :
                      Len(chunks[n]) \in 1..call.buf
               /\ Concat(chunks) = data
               /\ ret = Ok(Truncate(hexdigest(call.alg, data)), FALSE, TRUE)
               /\ \A b \in BufSizes :
                      hash_file(fs, call.path, call.alg, b) = ret

\* C16 witness: a file of six bytes was hashed in chunks of 4 and 2 bytes
C16_Witness ==
    /\ call.fn = "hash_file" /\ call.done
    /\ call.buf = 4
    /\ call.path \in DOMAIN fs
    /\ fs[call.path] = Zip1
    /\ Len(Chunks(Zip1, call.buf)) = 2
    /\ ret.kind = "ok"

====
